---- MODULE Spec2Model ----
(***************************************************************************)
(* The OSB REST API surface of pmorie/osb-broker-lib (pkg/rest): the nine  *)
(* operation handlers, their request unpackers and the response and error  *)
(* writer, as a state machine over in-flight HTTP requests; and the        *)
(* identities of pkg/broker, as a caller of NewIdentity gets and reads     *)
(* them.                                                                   *)
(*                                                                         *)
(* Strings are TLA+ strings, read character by character with SubSeq.  A   *)
(* Go pointer is a sequence: Nil (<<>>) or <<v>>.                          *)
(***************************************************************************)
EXTENDS Integers, Sequences, FiniteSets, Bags, TLC

VARIABLES
    reqs,        \* the bag of requests received, each with its handler's state
    counters,    \* s.Metrics.Actions: label -> count
    enableCORS,  \* s.EnableCORS
    caller       \* a caller of broker.NewIdentity and of the identity it gets

vars == <<reqs, counters, enableCORS, caller>>

\* Number of requests handled concurrently in SpecConc.
MaxReq == 2

Nil == <<>>

Ptr(v) == <<v>>

---------------------------------------------------------------------------
(* Strings *)

Char(s, i) == SubSeq(s, i, i)

Rest(s, i) == SubSeq(s, i, Len(s))

UpperChars == "ABCDEFGHIJKLMNOPQRSTUVWXYZ"

LowerChars == "abcdefghijklmnopqrstuvwxyz"

\* Position of character c in alphabet a, 0 when absent.
IndexOf(c, a) ==
    IF \E i \in 1..Len(a) : Char(a, i) = c
    THEN CHOOSE i \in 1..Len(a) : Char(a, i) = c
    ELSE 0

ToLowerChar(c) ==
    LET i == IndexOf(c, UpperChars)
    IN  IF i = 0 THEN c ELSE Char(LowerChars, i)

\* strings.ToLower
RECURSIVE ToLower(_)
ToLower(s) ==
    IF Len(s) = 0 THEN ""
    ELSE ToLowerChar(Char(s, 1)) \o ToLower(Rest(s, 2))

\* strings.Split(s, " "): the substrings between single spaces.
RECURSIVE Split(_)
Split(s) ==
    LET i == IndexOf(" ", s)
    IN  IF i = 0 THEN <<s>>
        ELSE <<SubSeq(s, 1, i - 1)>> \o Split(Rest(s, i + 1))

---------------------------------------------------------------------------
(* base64.StdEncoding.DecodeString *)

B64Chars == "ABCDEFGHIJKLMNOPQRSTUVWXYZabcdefghijklmnopqrstuvwxyz0123456789+/"

\* The printable ASCII characters, code 32 first (code 96, the grave accent,
\* cannot be written in a string and is held by "?").
AsciiChars ==
    " !\"#$%&'()*+,-./0123456789:;<=>?@ABCDEFGHIJKLMNOPQRSTUVWXYZ[\\]^_?abcdefghijklmnopqrstuvwxyz{|}~"

ByteChar(b) == IF b >= 32 /\ b <= 126 THEN Char(AsciiChars, b - 31) ELSE "?"

B64Val(c) == IndexOf(c, B64Chars) - 1

\* One quantum of four characters; last tells whether padding may appear.
QuadOk(q, last) ==
    /\ B64Val(Char(q, 1)) >= 0
    /\ B64Val(Char(q, 2)) >= 0
    /\ \/ B64Val(Char(q, 3)) >= 0 /\ B64Val(Char(q, 4)) >= 0
       \/ last /\ B64Val(Char(q, 3)) >= 0 /\ Char(q, 4) = "="
       \/ last /\ Char(q, 3) = "=" /\ Char(q, 4) = "="

QuadBytes(q) ==
    LET v(i) == IF Char(q, i) = "=" THEN 0 ELSE B64Val(Char(q, i))
        n == v(1) * 262144 + v(2) * 4096 + v(3) * 64 + v(4)
        b1 == ByteChar(n \div 65536)
        b2 == ByteChar((n \div 256) % 256)
        b3 == ByteChar(n % 256)
    IN  IF Char(q, 3) = "=" THEN b1
        ELSE IF Char(q, 4) = "=" THEN b1 \o b2
        ELSE b1 \o b2 \o b3

RECURSIVE B64Ok(_)
B64Ok(s) ==
    IF Len(s) = 0 THEN TRUE
    ELSE IF Len(s) < 4 THEN FALSE
    ELSE QuadOk(SubSeq(s, 1, 4), Len(s) = 4) /\ B64Ok(Rest(s, 5))

RECURSIVE B64Bytes(_)
B64Bytes(s) ==
    IF Len(s) = 0 THEN ""
    ELSE QuadBytes(SubSeq(s, 1, 4)) \o B64Bytes(Rest(s, 5))

\* [err, val]: err is TRUE for a CorruptInputError.
Base64Decode(s) ==
    IF B64Ok(s) THEN [err |-> FALSE, val |-> B64Bytes(s)]
    ELSE [err |-> TRUE, val |-> ""]

---------------------------------------------------------------------------
(* Operations and inbound HTTP requests *)

\* The nine operations, named by the metric label of their handler.
Ops ==
    {"get_catalog", "provision", "deprovision", "last_operation", "bind",
     "unbind", "update", "get_binding", "binding_last_operation"}

\* Operations served only through routes added by AsyncBindExtension.
ExtensionOps == {"get_binding", "binding_last_operation"}

\* Operations whose request carries a JSON body.
BodyOps == {"provision", "bind", "update"}

\* osb.VarKey*: the names the unpackers look path and form values up under.
VarKeyInstanceID == "instance_id"

VarKeyBindingID == "binding_id"

VarKeyServiceID == "service_id"

VarKeyPlanID == "plan_id"

VarKeyOperation == "operation"

AcceptsIncomplete == "accepts_incomplete"

\* A Go map[string]string read with m[k]: a missing key reads as "".
NoVars ==
    [instance_id |-> "", binding_id |-> "", service_id |-> "", plan_id |-> "",
     operation |-> "", instance_uuid |-> "", binding_uuid |-> ""]

\* Path variables of the routes of the base router, named as in the route table.
BaseRouteVars(op, path) ==
    IF op \in {"bind", "unbind"} \cup ExtensionOps
    THEN [NoVars EXCEPT ![VarKeyInstanceID] = path.instance,
                        ![VarKeyBindingID] = path.binding]
    ELSE IF op = "get_catalog" THEN NoVars
    ELSE [NoVars EXCEPT ![VarKeyInstanceID] = path.instance]

\* Path variables of the two routes AsyncBindExtension.Extend registers.
ExtendRouteVars(path) ==
    [NoVars EXCEPT !["instance_uuid"] = path.instance,
                   !["binding_uuid"] = path.binding]

\* mux.Vars(r)
MuxVars(op, r) ==
    IF r.route = "extension" THEN ExtendRouteVars(r.path)
    ELSE BaseRouteVars(op, r.path)

\* r.URL.Query().Get(key) and, for these body-less or JSON-bodied requests,
\* r.FormValue(key).
FormValue(r, key) == r.query[key]

NoQuery ==
    [accepts_incomplete |-> "", service_id |-> "", plan_id |-> "", operation |-> ""]

\* A request body: one that does not parse as JSON (an empty body is one), or a
\* JSON object with these two members.
NoBody == [malformed |-> TRUE, service_id |-> "", plan_id |-> ""]

GoodBody == [malformed |-> FALSE, service_id |-> "s1234", plan_id |-> "p1234"]

AcceptsValues == {"", "true", "TRUE", "True", "false", "1"}

\* "duder" and {"username":"a"} in base64.
IdentityHeaders ==
    {"", "kubernetes ZHVkZXI=", "kubernetes eyJ1c2VybmFtZSI6ImEifQ==",
     "kubernetes", "kubernetes ZHVkZXI= x", "kubernetes ZHVkZXI",
     "mesos ZHVkZXI="}

IdQueries ==
    {[NoQuery EXCEPT ![VarKeyServiceID] = s, ![VarKeyPlanID] = p] :
        s \in {"", "s1234"}, p \in {"", "p1234"}}

OpQueries ==
    {[q EXCEPT ![VarKeyOperation] = o] : q \in IdQueries, o \in {"", "o1234"}}

ThePath == [instance |-> "i1234", binding |-> "b1234"]

HTTPRequest(route, query, identity, body) ==
    [route |-> route, path |-> ThePath, query |-> query,
     identity |-> identity, body |-> body]

\* The requests each route is exercised with.
Requests(op) ==
    CASE op = "get_catalog" ->
           {HTTPRequest("base", NoQuery, "", NoBody)}
      [] op \in {"provision", "update"} ->
           {HTTPRequest("base", [NoQuery EXCEPT ![AcceptsIncomplete] = a], h, b) :
               a \in AcceptsValues, h \in IdentityHeaders, b \in {NoBody, GoodBody}}
      [] op = "deprovision" ->
           {HTTPRequest("base", [q EXCEPT ![AcceptsIncomplete] = a], h, NoBody) :
               a \in AcceptsValues, h \in IdentityHeaders,
               q \in {NoQuery, [NoQuery EXCEPT ![VarKeyServiceID] = "s1234",
                                               ![VarKeyPlanID] = "p1234"]}}
      [] op = "last_operation" ->
           {HTTPRequest("base", q, h, NoBody) :
               q \in OpQueries, h \in {"", "kubernetes ZHVkZXI="}}
      [] op = "bind" ->
           {HTTPRequest("base", NoQuery, h, b) :
               h \in IdentityHeaders, b \in {NoBody, GoodBody}}
      [] op = "unbind" ->
           {HTTPRequest("base", q, h, NoBody) :
               q \in IdQueries, h \in IdentityHeaders}
      [] op = "get_binding" ->
           {HTTPRequest(rt, NoQuery, h, NoBody) :
               rt \in {"base", "extension"}, h \in IdentityHeaders}
      [] op = "binding_last_operation" ->
           {HTTPRequest(rt, q, h, NoBody) :
               rt \in {"base", "extension"}, q \in OpQueries,
               h \in IdentityHeaders}

FullQuery ==
    [NoQuery EXCEPT ![AcceptsIncomplete] = "true", ![VarKeyServiceID] = "s1234",
                    ![VarKeyPlanID] = "p1234", ![VarKeyOperation] = "o1234"]

\* The requests of the concurrent specification: one well-formed request per
\* operation and, for one base and one extension route, the same request
\* without its identity header.
ConcRequests(op) ==
    {HTTPRequest(IF op \in ExtensionOps THEN "extension" ELSE "base",
                 FullQuery, h, IF op \in BodyOps THEN GoodBody ELSE NoBody) :
        h \in {"kubernetes ZHVkZXI="}
              \cup (IF op \in {"unbind", "binding_last_operation"} THEN {""} ELSE {})}

---------------------------------------------------------------------------
(* Errors *)

\* An error value: a plain error with a message, or an osb.HTTPStatusCodeError.
GenericError(msg) == [kind |-> "generic", msg |-> msg]

HTTPError(status, code, desc) ==
    [kind |-> "http", status |-> status, code |-> code, desc |-> desc]

NoError == [kind |-> "nil"]

\* osb.IsHTTPError
IsHTTPError(err) == err.kind = "http"

---------------------------------------------------------------------------
(* Request unpackers *)

Unpacked(request) == [err |-> NoError, request |-> request]

Failed(err) == [err |-> err, request |-> Nil]

\* unmarshalRequestBody: decodes the JSON body into the request's body fields.
unmarshalRequestBody(r, osbRequest) ==
    IF r.body.malformed
    THEN Failed(GenericError("invalid character in request body"))
    ELSE Unpacked([osbRequest EXCEPT !.ServiceID = r.body.service_id,
                                     !.PlanID = r.body.plan_id])

\* [err, identity]: identity is a pointer to an osb.OriginatingIdentity.
retrieveOriginatingIdentity(r) ==
    LET identityHeader == r.identity
        identitySlice == Split(identityHeader)
    IN  IF identityHeader # ""
        THEN IF Len(identitySlice) # 2
             THEN [err |-> GenericError("invalid originating identity header"),
                   identity |-> Nil]
             ELSE LET decoded == Base64Decode(identitySlice[2])
                  IN  IF decoded.err
                      THEN [err |-> GenericError(
                                "invalid encoding for value of originating identity header"),
                            identity |-> Nil]
                      ELSE [err |-> NoError,
                            identity |-> Ptr([Platform |-> identitySlice[1],
                                              Value |-> decoded.val])]
        ELSE [err |-> GenericError("unable to find originating identity"),
              identity |-> Nil]

unpackProvisionRequest(r) ==
    LET zero == [InstanceID |-> "", AcceptsIncomplete |-> FALSE, ServiceID |-> "",
                 PlanID |-> "", OriginatingIdentity |-> Nil]
        body == unmarshalRequestBody(r, zero)
        mvars == MuxVars("provision", r)
        asyncQueryParamVal == r.query[AcceptsIncomplete]
        id == retrieveOriginatingIdentity(r)
    IN  IF body.err # NoError THEN Failed(body.err)
        ELSE IF id.err # NoError THEN Failed(id.err)
        ELSE Unpacked([body.request EXCEPT
                 !.InstanceID = mvars[VarKeyInstanceID],
                 !.AcceptsIncomplete = (ToLower(asyncQueryParamVal) = "true"),
                 !.OriginatingIdentity = id.identity])

unpackDeprovisionRequest(r) ==
    LET mvars == MuxVars("deprovision", r)
        asyncQueryParamVal == FormValue(r, AcceptsIncomplete)
        id == retrieveOriginatingIdentity(r)
    IN  IF id.err # NoError THEN Failed(id.err)
        ELSE Unpacked([InstanceID |-> mvars[VarKeyInstanceID],
                       ServiceID |-> FormValue(r, VarKeyServiceID),
                       PlanID |-> FormValue(r, VarKeyPlanID),
                       AcceptsIncomplete |-> (ToLower(asyncQueryParamVal) = "true"),
                       OriginatingIdentity |-> id.identity])

unpackLastOperationRequest(r) ==
    LET mvars == MuxVars("last_operation", r)
        serviceID == mvars[VarKeyServiceID]
        planID == mvars[VarKeyPlanID]
        operation == mvars[VarKeyOperation]
    IN  Unpacked([InstanceID |-> mvars[VarKeyInstanceID],
                  ServiceID |-> IF serviceID # "" THEN Ptr(serviceID) ELSE Nil,
                  PlanID |-> IF planID # "" THEN Ptr(planID) ELSE Nil,
                  OperationKey |-> IF operation # "" THEN Ptr(operation) ELSE Nil,
                  OriginatingIdentity |-> Nil])

unpackBindRequest(r) ==
    LET zero == [InstanceID |-> "", BindingID |-> "", AcceptsIncomplete |-> FALSE,
                 ServiceID |-> "", PlanID |-> "", OriginatingIdentity |-> Nil]
        body == unmarshalRequestBody(r, zero)
        mvars == MuxVars("bind", r)
        id == retrieveOriginatingIdentity(r)
    IN  IF body.err # NoError THEN Failed(body.err)
        ELSE IF id.err # NoError THEN Failed(id.err)
        ELSE Unpacked([body.request EXCEPT
                 !.InstanceID = mvars[VarKeyInstanceID],
                 !.BindingID = mvars[VarKeyBindingID],
                 !.OriginatingIdentity = id.identity])

unpackUnbindRequest(r) ==
    LET mvars == MuxVars("unbind", r)
        id == retrieveOriginatingIdentity(r)
    IN  IF id.err # NoError THEN Failed(id.err)
        ELSE Unpacked([InstanceID |-> mvars[VarKeyInstanceID],
                       BindingID |-> mvars[VarKeyBindingID],
                       AcceptsIncomplete |-> FALSE,
                       ServiceID |-> "",
                       PlanID |-> "",
                       OriginatingIdentity |-> id.identity])

unpackUpdateRequest(r) ==
    LET mvars == MuxVars("update", r)
        planID == mvars[VarKeyPlanID]
        id == retrieveOriginatingIdentity(r)
    IN  IF id.err # NoError THEN Failed(id.err)
        ELSE Unpacked([InstanceID |-> "",
                       AcceptsIncomplete |-> FALSE,
                       ServiceID |-> mvars[VarKeyServiceID],
                       PlanID |-> IF planID # "" THEN Ptr(planID) ELSE Nil,
                       OriginatingIdentity |-> id.identity])

unpackGetBindingRequest(r) ==
    LET mvars == MuxVars("get_binding", r)
    IN  Unpacked([InstanceID |-> mvars[VarKeyInstanceID],
                  BindingID |-> mvars[VarKeyInstanceID]])

unpackBindingLastOperationRequest(r) ==
    LET mvars == MuxVars("binding_last_operation", r)
        serviceID == FormValue(r, VarKeyServiceID)
        planID == FormValue(r, VarKeyPlanID)
        operation == FormValue(r, VarKeyOperation)
        id == retrieveOriginatingIdentity(r)
    IN  IF id.err # NoError THEN Failed(id.err)
        ELSE Unpacked([InstanceID |-> mvars[VarKeyInstanceID],
                       BindingID |-> mvars[VarKeyInstanceID],
                       ServiceID |-> IF serviceID # "" THEN Ptr(serviceID) ELSE Nil,
                       PlanID |-> IF planID # "" THEN Ptr(planID) ELSE Nil,
                       OperationKey |-> IF operation # "" THEN Ptr(operation) ELSE Nil,
                       OriginatingIdentity |-> id.identity])

\* The unpacker each handler calls; GetCatalogHandler calls none.
Unpack(op, r) ==
    CASE op = "provision" -> unpackProvisionRequest(r)
      [] op = "deprovision" -> unpackDeprovisionRequest(r)
      [] op = "last_operation" -> unpackLastOperationRequest(r)
      [] op = "bind" -> unpackBindRequest(r)
      [] op = "unbind" -> unpackUnbindRequest(r)
      [] op = "update" -> unpackUpdateRequest(r)
      [] op = "get_binding" -> unpackGetBindingRequest(r)
      [] op = "binding_last_operation" -> unpackBindingLastOperationRequest(r)

---------------------------------------------------------------------------
(* Response and error writer *)

StatusOK == 200

StatusAccepted == 202

StatusBadRequest == 400

StatusPreconditionFailed == 412

StatusInternalServerError == 500

CORSHeaders ==
    {<<"Access-Control-Allow-Origin", "*">>,
     <<"Access-Control-Allow-Methods", "POST, GET, OPTIONS, PUT, PATCH, DELETE">>,
     <<"Access-Control-Allow-Headers",
       "Origin, X-Requested-With, X-Broker-API-Version, X-Broker-API-Originating-Identity, Content-Type, Authorization, Accept">>}

\* A value handed to the writer: doc is its JSON document, unsupported tells
\* that it holds a value encoding/json refuses (a channel, a function, a NaN).
Object(doc) == [unsupported |-> FALSE, doc |-> doc]

\* json.Marshal
Marshal(object) ==
    IF object.unsupported THEN [err |-> TRUE, data |-> Nil]
    ELSE [err |-> FALSE, data |-> Ptr(object.doc)]

\* What one call of writeResponse sends: the status line, the headers set and
\* the body written (Nil: none).
writeResponse(cors, code, object) ==
    LET m == Marshal(object)
    IN  IF m.err
        THEN [status |-> StatusInternalServerError, headers |-> {}, body |-> Nil]
        ELSE [status |-> code,
              headers |-> {<<"Content-Type", "application/json">>}
                            \cup (IF cors THEN CORSHeaders ELSE {}),
              body |-> m.data]

\* The JSON object of struct e: a member per pointer that is set (omitempty).
writeOSBStatusCodeErrorResponse(cors, err) ==
    LET members == {k \in {"error", "description"} :
                       \/ k = "description" /\ err.desc # Nil
                       \/ k = "error" /\ err.code # Nil}
        body == [k \in members |->
                    IF k = "description" THEN err.desc[1] ELSE err.code[1]]
    IN  writeResponse(cors, err.status, Object(body))

writeErrorResponse(cors, code, err) ==
    writeResponse(cors, code, Object([k \in {"description"} |-> err.msg]))

\* writeError giving a status-coded error the caller's default status.
writeErrorAtDefault(cors, err, defaultStatusCode) ==
    IF IsHTTPError(err)
    THEN writeOSBStatusCodeErrorResponse(cors,
             [err EXCEPT !.status = defaultStatusCode])
    ELSE writeErrorResponse(cors, defaultStatusCode, err)

writeError(cors, err, defaultStatusCode) ==
    IF IsHTTPError(err)
    THEN writeOSBStatusCodeErrorResponse(cors, err)
    ELSE writeErrorResponse(cors, defaultStatusCode, err)

---------------------------------------------------------------------------
(* The business logic: an opaque collaborator *)

\* Status-coded errors the business logic may return.
HTTPErrors ==
    {HTTPError(st, code, desc) :
        st \in {404, 422},
        code \in {Nil, Ptr("AsyncRequired")},
        desc \in {Nil, Ptr("gone")}}

\* What BusinessLogic.ValidateBrokerAPIVersion may return.
VersionResults ==
    {NoError, GenericError("unsupported API version")} \cup HTTPErrors

\* Whether the operation's response type has members of type interface{},
\* which may hold a value json.Marshal refuses.
HoldsAnyValue(op) == op \in {"get_catalog", "bind", "get_binding"}

\* Whether the operation's response type has an Async member.
HasAsync(op) == op \in {"provision", "deprovision", "update", "bind", "unbind"}

\* A response of the business logic.
Response(async, unsupported) ==
    [kind |-> "ok", async |-> async, unsupported |-> unsupported, doc |-> "{}"]

\* What the operation's business logic may return.
LogicResults(op) ==
    {Response(a, u) : a \in {FALSE} \cup {HasAsync(op)},
                      u \in {FALSE} \cup {HoldsAnyValue(op)}}
    \cup {GenericError("business logic failed")} \cup HTTPErrors

ConcVersionResults == {NoError, GenericError("unsupported API version")}

ConcLogicResults(op) ==
    {Response(FALSE, FALSE), GenericError("business logic failed")}

---------------------------------------------------------------------------
(* encoding/json on the identity payload: JSON texts without whitespace and  *)
(* escapes, made of objects, arrays, strings, unsigned integers and null.     *)

\* A JSON value: its type t, its text s (a string's or a number's) and its
\* items (the elements of an array, the members of an object).
JSONValue(t, s, items) == [t |-> t, s |-> s, items |-> items]

Member(key, val) == [key |-> key, val |-> val]

NoParse == [ok |-> FALSE, val |-> JSONValue("null", "", <<>>), rest |-> ""]

Parsed(val, rest) == [ok |-> TRUE, val |-> val, rest |-> rest]

\* The character of s at position i, "" past its end.
At(s, i) == IF i <= Len(s) THEN Char(s, i) ELSE ""

\* How many characters of s precede the first c (Len(s) if there is none).
RECURSIVE Until(_, _)
Until(s, c) ==
    IF Len(s) = 0 \/ Char(s, 1) = c THEN 0 ELSE 1 + Until(Rest(s, 2), c)

\* Length of the longest prefix of s made of characters of alphabet a.
RECURSIVE Span(_, _)
Span(s, a) ==
    IF Len(s) > 0 /\ IndexOf(Char(s, 1), a) > 0 THEN 1 + Span(Rest(s, 2), a)
    ELSE 0

HasPrefix(s, p) == Len(s) >= Len(p) /\ SubSeq(s, 1, Len(p)) = p

\* s begins with the opening quote.
ParseString(s) ==
    LET n == Until(Rest(s, 2), "\"")
    IN  IF n + 2 > Len(s) THEN NoParse
        ELSE Parsed(JSONValue("string", SubSeq(s, 2, n + 1), <<>>), Rest(s, n + 3))

ParseNumber(s) ==
    LET n == Span(s, "0123456789")
    IN  Parsed(JSONValue("number", SubSeq(s, 1, n), <<>>), Rest(s, n + 1))

RECURSIVE ParseValue(_), ParseElements(_, _), ParseMembers(_, _)
ParseValue(s) ==
    LET c == At(s, 1)
    IN  IF c = "\"" THEN ParseString(s)
        ELSE IF c = "[" THEN
            IF At(s, 2) = "]"
            THEN Parsed(JSONValue("array", "", <<>>), Rest(s, 3))
            ELSE ParseElements(Rest(s, 2), <<>>)
        ELSE IF c = "{" THEN
            IF At(s, 2) = "}"
            THEN Parsed(JSONValue("object", "", <<>>), Rest(s, 3))
            ELSE ParseMembers(Rest(s, 2), <<>>)
        ELSE IF c # "" /\ IndexOf(c, "0123456789") > 0 THEN ParseNumber(s)
        ELSE IF HasPrefix(s, "null")
        THEN Parsed(JSONValue("null", "null", <<>>), Rest(s, 5))
        ELSE NoParse

\* The elements of an array after those of acc, up to the closing bracket.
ParseElements(s, acc) ==
    LET v == ParseValue(s)
        next == At(v.rest, 1)
    IN  IF ~v.ok THEN NoParse
        ELSE IF next = "," THEN ParseElements(Rest(v.rest, 2), Append(acc, v.val))
        ELSE IF next = "]"
        THEN Parsed(JSONValue("array", "", Append(acc, v.val)), Rest(v.rest, 2))
        ELSE NoParse

\* The members of an object after those of acc, up to the closing brace.
ParseMembers(s, acc) ==
    LET k == IF At(s, 1) = "\"" THEN ParseString(s) ELSE NoParse
        v == IF k.ok /\ At(k.rest, 1) = ":" THEN ParseValue(Rest(k.rest, 2))
             ELSE NoParse
        next == At(v.rest, 1)
        members == Append(acc, Member(k.val.s, v.val))
    IN  IF ~v.ok THEN NoParse
        ELSE IF next = "," THEN ParseMembers(Rest(v.rest, 2), members)
        ELSE IF next = "}"
        THEN Parsed(JSONValue("object", "", members), Rest(v.rest, 2))
        ELSE NoParse

\* The value a whole text denotes; ok is FALSE for a syntax error.
ParseDocument(text) ==
    LET p == ParseValue(text)
    IN  IF p.ok /\ p.rest = "" THEN p ELSE NoParse

IsStrings(v) ==
    v.t = "array" /\ \A i \in DOMAIN v.items : v.items[i].t = "string"

\* The []string an array of strings decodes to.
Strings(v) == [i \in DOMAIN v.items |-> v.items[i].s]

IsStringLists(v) ==
    v.t = "object" /\ \A i \in DOMAIN v.items : IsStrings(v.items[i].val)

Keys(members) == {members[i].key : i \in DOMAIN members}

\* The value a Go map holds under key k: that of the last member named k.
LastOf(members, k) ==
    LET I == {i \in DOMAIN members : members[i].key = k}
    IN  members[CHOOSE i \in I : \A j \in I : j <= i].val

\* The map[string][]string an object of arrays of strings decodes to.
StringLists(v) == [k \in Keys(v.items) |-> Strings(LastOf(v.items, k))]

\* The map[string]interface{} an object decodes to.
GenericMap(v) == [k \in Keys(v.items) |-> LastOf(v.items, k)]

\* UserInfo{}: nil slice and map are Nil, set ones are pointers.
ZeroUserInfo == [Username |-> "", UID |-> "", Groups |-> Nil, Extra |-> Nil]

\* The field of UserInfo a JSON key names, matched without regard to case;
\* "" when it names none.
FieldOf(key) ==
    LET k == ToLower(key)
    IN  IF k = "username" THEN "Username"
        ELSE IF k = "uid" THEN "UID"
        ELSE IF k = "groups" THEN "Groups"
        ELSE IF k = "extra" THEN "Extra"
        ELSE ""

\* Whether JSON value v has the type of field f.
Fits(f, v) ==
    IF f = "Groups" THEN IsStrings(v)
    ELSE IF f = "Extra" THEN IsStringLists(v)
    ELSE v.t = "string"

Stored(f, v) ==
    IF f = "Groups" THEN Ptr(Strings(v))
    ELSE IF f = "Extra" THEN Ptr(StringLists(v))
    ELSE v.s

\* json.Unmarshal storing the members of an object into u, in order: a key
\* naming no field and a null are skipped, a value of the wrong type is an
\* error.
RECURSIVE DecodeUserInfo(_, _)
DecodeUserInfo(members, u) ==
    IF members = <<>> THEN [err |-> FALSE, u |-> u]
    ELSE LET m == Head(members)
             f == FieldOf(m.key)
         IN  IF f = "" \/ m.val.t = "null" THEN DecodeUserInfo(Tail(members), u)
             ELSE IF ~Fits(f, m.val)
             THEN [err |-> TRUE, u |-> DecodeUserInfo(Tail(members), u).u]
             ELSE DecodeUserInfo(Tail(members), [u EXCEPT ![f] = Stored(f, m.val)])

\* json.Unmarshal(val, &u) with u a UserInfo
UnmarshalUserInfo(text) ==
    LET p == ParseDocument(text)
    IN  IF p.ok /\ p.val.t = "null" THEN [err |-> FALSE, u |-> ZeroUserInfo]
        ELSE IF ~p.ok \/ p.val.t # "object"
        THEN [err |-> TRUE, u |-> ZeroUserInfo]
        ELSE DecodeUserInfo(p.val.items, ZeroUserInfo)

\* json.Unmarshal(val, &m) with m a map[string]interface{}
UnmarshalMap(text) ==
    LET p == ParseDocument(text)
    IN  IF p.ok /\ p.val.t = "null" THEN [err |-> FALSE, m |-> <<>>]
        ELSE IF ~p.ok \/ p.val.t # "object" THEN [err |-> TRUE, m |-> <<>>]
        ELSE [err |-> FALSE, m |-> GenericMap(p.val)]

---------------------------------------------------------------------------
(* broker.NewIdentity and the identities it returns *)

K8SIdentity(userInfo, platform) ==
    [type |-> "K8SIdentity", platform |-> platform, userInfo |-> userInfo,
     value |-> <<>>]

CloudFoundry(platform, value) ==
    [type |-> "CloudFoundry", platform |-> platform, userInfo |-> ZeroUserInfo,
     value |-> value]

\* [err, identity]: identity is Nil or a pointer to the Identity returned.
NewIdentity(platform, value) ==
    LET val == Base64Decode(value)
        lower == ToLower(platform)
    IN  IF val.err
        THEN [err |-> GenericError("unable decode identity value"),
              identity |-> Nil]
        ELSE IF lower = "kubernetes"
        THEN LET u == UnmarshalUserInfo(val.val)
             IN  IF u.err
                 THEN [err |-> GenericError("unable to unmarshal json for value"),
                       identity |-> Nil]
                 ELSE [err |-> NoError,
                       identity |-> Ptr(K8SIdentity(u.u, platform))]
        ELSE IF lower = "cloudfoundry"
        THEN LET m == UnmarshalMap(val.val)
             IN  IF m.err
                 THEN [err |-> GenericError("unable to unmarshal json for value"),
                       identity |-> Nil]
                 ELSE [err |-> NoError,
                       identity |-> Ptr(CloudFoundry(platform, m.m))]
        ELSE [err |-> GenericError("unable to determine type of identity"),
              identity |-> Nil]

\* A Go value held in an interface{}: its dynamic type and the value.
Interface(type, v) == [type |-> type, v |-> v]

\* The method value x.name: a func bound to its receiver.
MethodValue(name) == Interface("func", name)

\* K8SIdentity.Platform and CloudFoundry.Platform
Platform(id) == id.platform

\* K8SIdentity.Value
K8SIdentityValue(k) == Interface("UserInfo", k.userInfo)

\* CloudFoundry.Value: returns c.Value, the method itself, not the field
\* c.value.
CloudFoundryValue(c) == MethodValue("CloudFoundry.Value")

\* Identity.Value, by the dynamic type of the identity.
Value(id) ==
    IF id.type = "K8SIdentity" THEN K8SIdentityValue(id)
    ELSE CloudFoundryValue(id)

---------------------------------------------------------------------------
(* json.Marshal of the value an identity returns *)

\* Whether string a sorts before string b, byte by byte.
RECURSIVE LessStr(_, _)
LessStr(a, b) ==
    IF Len(a) = 0 THEN Len(b) > 0
    ELSE IF Len(b) = 0 THEN FALSE
    ELSE IF Char(a, 1) = Char(b, 1) THEN LessStr(Rest(a, 2), Rest(b, 2))
    ELSE IndexOf(Char(a, 1), AsciiChars) < IndexOf(Char(b, 1), AsciiChars)

\* The keys of a map in the order json.Marshal writes them.
RECURSIVE SortedKeys(_)
SortedKeys(S) ==
    IF S = {} THEN <<>>
    ELSE LET m == CHOOSE k \in S : \A j \in S : j = k \/ LessStr(k, j)
         IN  <<m>> \o SortedKeys(S \ {m})

RECURSIVE Join(_)
Join(parts) ==
    IF Len(parts) = 0 THEN ""
    ELSE IF Len(parts) = 1 THEN parts[1]
    ELSE parts[1] \o "," \o Join(Tail(parts))

EncodeString(s) == "\"" \o s \o "\""

\* A []string: null when nil.
EncodeStrings(p) ==
    IF p = Nil THEN "null"
    ELSE "[" \o Join([i \in DOMAIN p[1] |-> EncodeString(p[1][i])]) \o "]"

\* A map[string][]string: null when nil, keys sorted.
EncodeStringLists(p) ==
    IF p = Nil THEN "null"
    ELSE LET ks == SortedKeys(DOMAIN p[1])
         IN  "{" \o Join([i \in DOMAIN ks |->
                             EncodeString(ks[i]) \o ":"
                                 \o EncodeStrings(Ptr(p[1][ks[i]]))]) \o "}"

\* A UserInfo: its four exported fields under their Go names.
EncodeUserInfo(u) ==
    "{\"Username\":" \o EncodeString(u.Username)
        \o ",\"UID\":" \o EncodeString(u.UID)
        \o ",\"Groups\":" \o EncodeStrings(u.Groups)
        \o ",\"Extra\":" \o EncodeStringLists(u.Extra) \o "}"

\* A value decoded into an interface{}.
RECURSIVE EncodeValue(_)
EncodeValue(v) ==
    IF v.t = "string" THEN EncodeString(v.s)
    ELSE IF v.t = "array"
    THEN "[" \o Join([i \in DOMAIN v.items |-> EncodeValue(v.items[i])]) \o "]"
    ELSE IF v.t = "object"
    THEN LET ks == SortedKeys(Keys(v.items))
         IN  "{" \o Join([i \in DOMAIN ks |->
                             EncodeString(ks[i]) \o ":"
                                 \o EncodeValue(LastOf(v.items, ks[i]))]) \o "}"
    ELSE v.s

\* A map[string]interface{}, keys sorted.
EncodeMap(m) ==
    LET ks == SortedKeys(DOMAIN m)
    IN  "{" \o Join([i \in DOMAIN ks |->
                        EncodeString(ks[i]) \o ":" \o EncodeValue(m[ks[i]])]) \o "}"

\* json.Marshal of an interface{}: a func is an UnsupportedTypeError.
MarshalValue(i) ==
    IF i.type = "func" THEN [err |-> TRUE, data |-> ""]
    ELSE IF i.type = "UserInfo" THEN [err |-> FALSE, data |-> EncodeUserInfo(i.v)]
    ELSE [err |-> FALSE, data |-> EncodeMap(i.v)]

\* The platform tokens and the base64 values NewIdentity is called with.  The
\* values hold, in order: {"username":"a"}; an object with username, uid,
\* groups and extra; {"user_id":"u"}; duder; ["a"]; {"username":1};
\* {"Username":"a","scope":["r"]}; {"uid":"1","groups":"g"}; null; and a
\* string that is not base64.
Platforms == {"kubernetes", "Kubernetes", "cloudfoundry", "CLOUDFOUNDRY", "mesos"}

IdentityValues ==
    {"eyJ1c2VybmFtZSI6ImEifQ==",
     "eyJ1c2VybmFtZSI6ImEiLCJ1aWQiOiIxIiwiZ3JvdXBzIjpbImciLCJoIl0sImV4dHJhIjp7ImsiOlsidiJdfX0=",
     "eyJ1c2VyX2lkIjoidSJ9",
     "ZHVkZXI=",
     "WyJhIl0=",
     "eyJ1c2VybmFtZSI6MX0=",
     "eyJVc2VybmFtZSI6ImEiLCJzY29wZSI6WyJyIl19",
     "eyJ1aWQiOiIxIiwiZ3JvdXBzIjoiZyJ9",
     "bnVsbA==",
     "ZHVkZXI"}

\* A caller that has not called NewIdentity yet.
Idle ==
    [pc |-> "idle", platform |-> "", value |-> "",
     res |-> [err |-> NoError, identity |-> Nil],
     gotPlatform |-> "", gotValue |-> Interface("nil", ""),
     encoded |-> [err |-> FALSE, data |-> ""]]

---------------------------------------------------------------------------
(* The handlers *)

\* UnbindHandler counting under the label of BindHandler.
OpLabelCopied(op) == IF op = "unbind" THEN "bind" ELSE op

\* The label each handler passes to s.Metrics.Actions.WithLabelValues.
OpLabel(op) ==
    CASE op = "get_catalog" -> "get_catalog"
      [] op = "provision" -> "provision"
      [] op = "deprovision" -> "deprovision"
      [] op = "last_operation" -> "last_operation"
      [] op = "bind" -> "bind"
      [] op = "unbind" -> "unbind"
      [] op = "update" -> "update"
      [] op = "get_binding" -> "get_binding"
      [] op = "binding_last_operation" -> "binding_last_operation"

\* prometheus Counter.Inc: one atomic addition.
Inc(c, label) == [c EXCEPT ![label] = c[label] + 1]

\* The handlers choosing that status by the shared counter: the status of the
\* code for the first request counted, 500 for the later ones.
UnpackErrorStatusByCount(op) ==
    IF counters[op] > 1 THEN StatusInternalServerError
    ELSE IF op \in {"provision", "get_binding", "binding_last_operation"}
    THEN StatusBadRequest
    ELSE StatusInternalServerError

\* The default status each handler gives writeError for an unpacking failure.
UnpackErrorStatus(op) ==
    CASE op = "provision" -> StatusBadRequest
      [] op = "deprovision" -> StatusInternalServerError
      [] op = "last_operation" -> StatusInternalServerError
      [] op = "bind" -> StatusInternalServerError
      [] op = "unbind" -> StatusInternalServerError
      [] op = "update" -> StatusInternalServerError
      [] op = "get_binding" -> StatusBadRequest
      [] op = "binding_last_operation" -> StatusBadRequest

\* The handlers never answering 202.
SuccessStatusNeverAccepted(op, response) == StatusOK

\* DeprovisionHandler answering 200 whatever the async flag.
SuccessStatusProvisionUpdateOnly(op, response) ==
    IF op \in {"provision", "update"}
    THEN IF response.async THEN StatusAccepted ELSE StatusOK
    ELSE StatusOK

\* The status each handler gives writeResponse for the response of the
\* business logic.
SuccessStatus(op, response) ==
    IF op \in {"provision", "deprovision", "update"}
    THEN IF response.async THEN StatusAccepted ELSE StatusOK
    ELSE StatusOK

\* The handlers without the return that follows the version error.
NextPcNoReturn(op, pc, ok) ==
    CASE pc = "start" -> "inc"
      [] pc = "inc" -> "validate"
      [] pc = "validate" -> IF op = "get_catalog" THEN "invoke" ELSE "unpack"
      [] pc = "unpack" -> IF ok THEN "invoke" ELSE "done"
      [] pc = "invoke" -> "respond"
      [] pc = "respond" -> "done"

\* The handlers without the return that follows the unpacking error.
NextPcFallThrough(op, pc, ok) ==
    CASE pc = "start" -> "inc"
      [] pc = "inc" -> "validate"
      [] pc = "validate" ->
           IF ~ok THEN "done"
           ELSE IF op = "get_catalog" THEN "invoke" ELSE "unpack"
      [] pc = "unpack" -> "invoke"
      [] pc = "invoke" -> "respond"
      [] pc = "respond" -> "done"

\* The handlers counting only the requests whose version was accepted.
NextPcIncLate(op, pc, ok) ==
    CASE pc = "start" -> "validate"
      [] pc = "validate" -> IF ok THEN "inc" ELSE "done"
      [] pc = "inc" -> IF op = "get_catalog" THEN "invoke" ELSE "unpack"
      [] pc = "unpack" -> IF ok THEN "invoke" ELSE "done"
      [] pc = "invoke" -> "respond"
      [] pc = "respond" -> "done"

\* The handlers unpacking the request before validating the version.
NextPcUnpackFirst(op, pc, ok) ==
    CASE pc = "start" -> "inc"
      [] pc = "inc" -> IF op = "get_catalog" THEN "validate" ELSE "unpack"
      [] pc = "unpack" -> IF ok THEN "validate" ELSE "done"
      [] pc = "validate" -> IF ok THEN "invoke" ELSE "done"
      [] pc = "invoke" -> "respond"
      [] pc = "respond" -> "done"

\* Where a handler goes after the step at pc: ok tells whether the step
\* returned no error.  Every error branch writes the error and returns.
NextPc(op, pc, ok) ==
    CASE pc = "start" -> "inc"
      [] pc = "inc" -> "validate"
      [] pc = "validate" ->
           IF ~ok THEN "done"
           ELSE IF op = "get_catalog" THEN "invoke" ELSE "unpack"
      [] pc = "unpack" -> IF ok THEN "invoke" ELSE "done"
      [] pc = "invoke" -> "respond"
      [] pc = "respond" -> "done"

\* One call of the writer, as logged per request: the writer called, the
\* error and the status code it was given, and what it sent.
WriteErrorCall(cors, err, code) ==
    [by |-> "writeError", err |-> err, code |-> code,
     sent |-> writeError(cors, err, code)]

WriteResponseCall(cors, code, response) ==
    [by |-> "writeResponse", err |-> NoError, code |-> code,
     sent |-> writeResponse(cors, code,
                  [unsupported |-> response.unsupported, doc |-> response.doc])]

NoResult == [kind |-> "none"]

\* The handler's state for a request it has just been handed.
Received(op, h) ==
    [pc |-> NextPc(op, "start", TRUE), op |-> op, http |-> h,
     trace |-> <<>>, verr |-> NoError, unpacked |-> Unpacked(Nil),
     logicArg |-> Nil, logicRes |-> NoResult, writes |-> <<>>]

\* The requests received so far.
Reqs == BagToSet(reqs)

\* The bag with request q moved to the handler state q2.
Moved(q, q2) == (reqs (-) SetToBag({q})) (+) SetToBag({q2})

Init ==
    /\ reqs = EmptyBag
    /\ counters = [l \in Ops |-> 0]
    /\ enableCORS \in BOOLEAN
    /\ caller = Idle

\* The router hands a request to the handler of its route; at most n requests
\* are received in all, drawn from Requests if every, else from ConcRequests.
Dispatch(n, every) ==
    /\ BagCardinality(reqs) < n
    /\ \E op \in Ops :
       \E h \in (IF every THEN Requests(op) ELSE ConcRequests(op)) :
          reqs' = reqs (+) SetToBag({Received(op, h)})
    /\ UNCHANGED <<counters, enableCORS, caller>>

\* s.Metrics.Actions.WithLabelValues(label).Inc()
IncStep(q) ==
    /\ q.pc = "inc"
    /\ counters' = Inc(counters, OpLabel(q.op))
    /\ reqs' = Moved(q, [q EXCEPT !.pc = NextPc(q.op, "inc", TRUE),
                                  !.trace = Append(q.trace, "inc")])
    /\ UNCHANGED <<enableCORS, caller>>

\* s.BusinessLogic.ValidateBrokerAPIVersion(version)
ValidateStep(q, Results) ==
    /\ q.pc = "validate"
    /\ \E err \in Results :
          reqs' = Moved(q,
             IF err = NoError
             THEN [q EXCEPT !.pc = NextPc(q.op, "validate", TRUE),
                            !.trace = Append(q.trace, "validate")]
             ELSE [q EXCEPT !.pc = NextPc(q.op, "validate", FALSE),
                            !.verr = err,
                            !.trace = q.trace \o <<"validate", "write">>,
                            !.writes = Append(q.writes,
                                WriteErrorCall(enableCORS, err,
                                               StatusPreconditionFailed))])
    /\ UNCHANGED <<counters, enableCORS, caller>>

\* request, err := unpack...Request(r)
UnpackStep(q) ==
    LET u == Unpack(q.op, q.http)
    IN  /\ q.pc = "unpack"
        /\ reqs' = Moved(q,
              IF u.err = NoError
              THEN [q EXCEPT !.pc = NextPc(q.op, "unpack", TRUE),
                             !.unpacked = u,
                             !.trace = Append(q.trace, "unpack")]
              ELSE [q EXCEPT !.pc = NextPc(q.op, "unpack", FALSE),
                             !.unpacked = u,
                             !.trace = q.trace \o <<"unpack", "write">>,
                             !.writes = Append(q.writes,
                                 WriteErrorCall(enableCORS, u.err,
                                                UnpackErrorStatus(q.op)))])
        /\ UNCHANGED <<counters, enableCORS, caller>>

\* response, err := s.BusinessLogic.<Operation>(request, c); the result is
\* drawn from LogicResults if every, else from ConcLogicResults.
InvokeStep(q, every) ==
    /\ q.pc = "invoke"
    /\ \E res \in (IF every THEN LogicResults(q.op) ELSE ConcLogicResults(q.op)) :
          reqs' = Moved(q, [q EXCEPT !.pc = NextPc(q.op, "invoke", TRUE),
                                     !.logicArg = Ptr(q.unpacked.request),
                                     !.logicRes = res,
                                     !.trace = Append(q.trace, "invoke")])
    /\ UNCHANGED <<counters, enableCORS, caller>>

\* The handler writes the error or the response of the business logic.
RespondStep(q) ==
    /\ q.pc = "respond"
    /\ reqs' = Moved(q,
          [q EXCEPT !.pc = NextPc(q.op, "respond", TRUE),
                    !.trace = Append(q.trace, "write"),
                    !.writes = Append(q.writes,
                        IF q.logicRes.kind # "ok"
                        THEN WriteErrorCall(enableCORS, q.logicRes,
                                            StatusInternalServerError)
                        ELSE WriteResponseCall(enableCORS,
                                 SuccessStatus(q.op, q.logicRes), q.logicRes))])
    /\ UNCHANGED <<counters, enableCORS, caller>>

\* One request, every input of every route.
Next ==
    \/ Dispatch(1, TRUE)
    \/ \E q \in Reqs : IncStep(q)
    \/ \E q \in Reqs : ValidateStep(q, VersionResults)
    \/ \E q \in Reqs : UnpackStep(q)
    \/ \E q \in Reqs : InvokeStep(q, TRUE)
    \/ \E q \in Reqs : RespondStep(q)

Spec == Init /\ [][Next]_vars

\* MaxReq requests handled concurrently, in any interleaving.
NextConc ==
    \/ Dispatch(MaxReq, FALSE)
    \/ \E q \in Reqs : IncStep(q)
    \/ \E q \in Reqs : ValidateStep(q, ConcVersionResults)
    \/ \E q \in Reqs : UnpackStep(q)
    \/ \E q \in Reqs : InvokeStep(q, FALSE)
    \/ \E q \in Reqs : RespondStep(q)

SpecConc == Init /\ [][NextConc]_vars

\* identity, err := broker.NewIdentity(platform, value)
NewIdentityStep ==
    /\ caller.pc = "idle"
    /\ \E platform \in Platforms, value \in IdentityValues :
          caller' = [caller EXCEPT !.pc = "made",
                                   !.platform = platform,
                                   !.value = value,
                                   !.res = NewIdentity(platform, value)]
    /\ UNCHANGED <<reqs, counters, enableCORS>>

\* identity.Platform() and identity.Value()
ReadStep ==
    /\ caller.pc = "made"
    /\ caller.res.err = NoError
    /\ caller' = [caller EXCEPT !.pc = "read",
                                !.gotPlatform = Platform(caller.res.identity[1]),
                                !.gotValue = Value(caller.res.identity[1])]
    /\ UNCHANGED <<reqs, counters, enableCORS>>

\* json.Marshal(identity.Value())
EncodeStep ==
    /\ caller.pc = "read"
    /\ caller' = [caller EXCEPT !.pc = "encoded",
                                !.encoded = MarshalValue(caller.gotValue)]
    /\ UNCHANGED <<reqs, counters, enableCORS>>

\* A caller of broker.NewIdentity, every platform token with every value.
NextIdentity ==
    \/ NewIdentityStep
    \/ ReadStep
    \/ EncodeStep

SpecIdentity == Init /\ [][NextIdentity]_vars

---------------------------------------------------------------------------
(* Properties *)

\* How many of the requests received, copies counted, are in S.
CountOf(S) ==
    LET T == S \cap Reqs
    IN  IF T = {} THEN 0 ELSE BagCardinality([q \in T |-> reqs[q]])

\* How often event e occurs in a request's trace.
Times(q, e) == Cardinality({i \in DOMAIN q.trace : q.trace[i] = e})

\* The response the client of request q receives: the first one written.
Sent(q) == q.writes[1].sent

VersionFailed(q) == q.verr # NoError

\* C1 as stated: when version validation fails the handler answers 412 and
\* stops, and neither the unpacker nor the business logic is invoked.
C1_VersionFailureAnswers412 ==
    \A q \in Reqs :
        VersionFailed(q) =>
            /\ q.pc = "done"
            /\ Len(q.writes) = 1
            /\ Sent(q).status = StatusPreconditionFailed
            /\ Times(q, "unpack") = 0
            /\ Times(q, "invoke") = 0

\* C1 amended: when version validation fails, every one of the nine handlers
\* writes the failure once through writeError with the default status 412 (so
\* the status is 412 unless the failure is a status-coded error, whose own
\* status is used) and stops: neither the unpacker nor the business logic is
\* invoked.
C1_VersionFailureStops ==
    \A q \in Reqs :
        VersionFailed(q) =>
            /\ q.pc = "done"
            /\ q.trace = <<"inc", "validate", "write">>
            /\ Len(q.writes) = 1
            /\ q.writes[1].by = "writeError"
            /\ q.writes[1].code = StatusPreconditionFailed
            /\ Sent(q).status =
                  (IF q.verr.kind = "http" THEN q.verr.status
                   ELSE StatusPreconditionFailed)
            /\ q.unpacked = Unpacked(Nil)
            /\ q.logicArg = Nil
            /\ q.logicRes = NoResult

C1_Witness ==
    \E q \in Reqs :
        /\ q.op = "binding_last_operation"
        /\ q.verr = GenericError("unsupported API version")
        /\ q.pc = "done"
        /\ Sent(q).status = StatusPreconditionFailed

Counted(q) == Times(q, "inc") > 0

\* C2: a request's handler increments the counter of its operation exactly
\* once, as its first step and so before version validation, on every path; it
\* changes no other counter.
C2_CounterFirstAndOnce ==
    /\ \A q \in Reqs :
          /\ Times(q, "inc") <= 1
          /\ q.trace # <<>> => q.trace[1] = "inc"
          /\ q.pc = "done" => Times(q, "inc") = 1
    /\ \A l \in Ops :
          counters[l] = CountOf({q \in Reqs : Counted(q) /\ q.op = l})

C2_Witness ==
    \E q \in Reqs :
        /\ q.op = "unbind"
        /\ q.pc = "done"
        /\ q.unpacked.err # NoError
        /\ counters["unbind"] = 1
        /\ counters["bind"] = 0

Quiescent == \A q \in Reqs : q.pc = "done"

DispatchedTo(l) == CountOf({q \in Reqs : q.op = l})

\* C3: under any interleaving of concurrent requests no counter ever decreases
\* and, whenever every request received has completed, each operation's
\* counter equals the number of requests dispatched to its handler.
C3_NoLostIncrement ==
    [][/\ \A l \in Ops : counters'[l] >= counters[l]
       /\ Quiescent' => \A l \in Ops : counters'[l] = DispatchedTo(l)']_vars

C3_Witness ==
    /\ Quiescent
    /\ BagCardinality(reqs) = MaxReq
    /\ counters["provision"] = MaxReq

\* C4: every request gets exactly one response: on every path the writer is
\* called once, the business logic is invoked at most once and no step runs
\* twice.
C4_OneResponse ==
    \A q \in Reqs :
        /\ Len(q.writes) <= 1
        /\ \A e \in {"inc", "validate", "unpack", "invoke", "write"} :
              Times(q, e) <= 1
        /\ q.pc = "done" => Len(q.writes) = 1 /\ Times(q, "write") = 1

C4_Witness ==
    \E q \in Reqs :
        /\ q.op = "update"
        /\ q.pc = "done"
        /\ q.logicRes.kind = "generic"
        /\ Len(q.writes) = 1
        /\ Times(q, "invoke") = 1

Unpacking(q) == Times(q, "unpack") = 1

UnpackFailed(q) == Unpacking(q) /\ q.unpacked.err # NoError

\* The unpacking errors that report a malformed body or identity header.
MalformedInputErrors ==
    {GenericError("invalid character in request body"),
     GenericError("invalid originating identity header"),
     GenericError("invalid encoding for value of originating identity header")}

\* C5 as stated: for provision, deprovision, bind, unbind, update and
\* binding-last-operation, an unpacking failure caused by a malformed JSON body
\* or a malformed identity header is answered with status 400.
C5_MalformedInputIs400 ==
    \A q \in Reqs :
        /\ q.op \in {"provision", "deprovision", "bind", "unbind", "update",
                     "binding_last_operation"}
        /\ UnpackFailed(q)
        /\ q.unpacked.err \in MalformedInputErrors
        /\ q.pc = "done"
        => Sent(q).status = StatusBadRequest

Succeeded(q) == q.pc = "done" /\ q.logicRes.kind = "ok"

\* The status the dispatcher algorithm gives a successful response.
StatedStatus(q) ==
    IF q.op \in {"provision", "update"} /\ q.logicRes.async
    THEN StatusAccepted ELSE StatusOK

\* C6 as stated: on success the status is 202 or 200 by the async flag for
\* Provision and Update and 200 for Bind, Unbind and Catalog, whatever the
\* response contains.
C6_StatusByAsyncFlag ==
    \A q \in Reqs :
        Succeeded(q) /\ q.op \in {"provision", "update", "bind", "unbind", "get_catalog"}
        => Sent(q).status = StatedStatus(q)

\* C6 amended: on success, a response that serializes to JSON is answered 202
\* or 200 by the async flag for Provision and Update and 200 for Bind, Unbind
\* and Catalog; a response json.Marshal refuses is answered with status 500 and
\* no body.
C6_StatusByAsyncFlagIfSerializable ==
    \A q \in Reqs :
        Succeeded(q) /\ q.op \in {"provision", "update", "bind", "unbind", "get_catalog"}
        => IF q.logicRes.unsupported
           THEN Sent(q).status = StatusInternalServerError /\ Sent(q).body = Nil
           ELSE Sent(q).status = StatedStatus(q) /\ Sent(q).body # Nil

C6_Witness ==
    \E q \in Reqs :
        /\ Succeeded(q)
        /\ q.op = "update"
        /\ q.logicRes.async
        /\ Sent(q).status = StatusAccepted

\* C7: writeError answers a status-coded error with the error's own status,
\* whatever default the caller gives, and a body holding "error" iff a code is
\* set and "description" iff a description is set; it answers any other error
\* with the caller's default status and the body {"description": message}.
C7_WriteErrorByKind ==
    \A q \in Reqs : \A i \in DOMAIN q.writes :
        LET w == q.writes[i]
        IN  w.by = "writeError" =>
              /\ w.sent.body # Nil
              /\ LET doc == w.sent.body[1]
                 IN  IF w.err.kind = "http"
                     THEN /\ w.sent.status = w.err.status
                          /\ ("error" \in DOMAIN doc) = (w.err.code # Nil)
                          /\ ("description" \in DOMAIN doc) = (w.err.desc # Nil)
                          /\ DOMAIN doc \subseteq {"error", "description"}
                          /\ w.err.code # Nil => doc["error"] = w.err.code[1]
                          /\ w.err.desc # Nil => doc["description"] = w.err.desc[1]
                     ELSE /\ w.sent.status = w.code
                          /\ DOMAIN doc = {"description"}
                          /\ doc["description"] = w.err.msg

C7_Witness ==
    \E q \in Reqs :
        /\ q.pc = "done"
        /\ q.logicRes = HTTPError(404, Nil, Ptr("gone"))
        /\ q.writes[1].code = StatusInternalServerError
        /\ Sent(q).status = 404
        /\ Sent(q).body = Ptr([k \in {"description"} |-> "gone"])

\* Whether v, compared case-insensitively, equals "true".
EqualsTrue(v) ==
    /\ Len(v) = 4
    /\ Char(v, 1) \in {"t", "T"}
    /\ Char(v, 2) \in {"r", "R"}
    /\ Char(v, 3) \in {"u", "U"}
    /\ Char(v, 4) \in {"e", "E"}

\* C8 as stated: for provision, deprovision and update the unpacked request's
\* AcceptsIncomplete is true iff the accepts_incomplete value equals "true"
\* case-insensitively.
C8_AcceptsIncompleteIffTrue ==
    \A q \in Reqs :
        /\ q.op \in {"provision", "deprovision", "update"}
        /\ Unpacking(q)
        /\ q.unpacked.err = NoError
        => q.unpacked.request.AcceptsIncomplete
              = EqualsTrue(q.http.query[AcceptsIncomplete])

\* An identity header that is absent or has two tokens, the second base64.
HeaderAbsentOrWellFormed(h) ==
    \/ h = ""
    \/ Len(Split(h)) = 2 /\ ~Base64Decode(Split(h)[2]).err

\* C9 as stated: unpacking an Update request with a JSON body succeeds, also
\* without an identity header, and yields the path's instance_id, the body's
\* service_id and plan_id and the accepts_incomplete flag of the query.
C9_UpdateUnpacked ==
    \A q \in Reqs :
        /\ q.op = "update"
        /\ Unpacking(q)
        /\ ~q.http.body.malformed
        /\ HeaderAbsentOrWellFormed(q.http.identity)
        => /\ q.unpacked.err = NoError
           /\ q.unpacked.request.InstanceID = q.http.path.instance
           /\ q.unpacked.request.ServiceID = q.http.body.service_id
           /\ q.unpacked.request.PlanID = Ptr(q.http.body.plan_id)
           /\ q.unpacked.request.AcceptsIncomplete
                 = EqualsTrue(q.http.query[AcceptsIncomplete])

\* C10 as stated: unpacking an Unbind request succeeds, also without an
\* identity header, and yields the path's instance_id and binding_id and the
\* query's service_id and plan_id.
C10_UnbindUnpacked ==
    \A q \in Reqs :
        /\ q.op = "unbind"
        /\ Unpacking(q)
        /\ HeaderAbsentOrWellFormed(q.http.identity)
        => /\ q.unpacked.err = NoError
           /\ q.unpacked.request.InstanceID = q.http.path.instance
           /\ q.unpacked.request.BindingID = q.http.path.binding
           /\ q.unpacked.request.ServiceID = q.http.query[VarKeyServiceID]
           /\ q.unpacked.request.PlanID = q.http.query[VarKeyPlanID]

UnpackSucceeded(q) == Unpacking(q) /\ q.unpacked.err = NoError

\* C11 as stated: for every GetBinding and BindingLastOperation request, also
\* one routed through the paths the async-bind extension registers, the
\* unpacked InstanceID is the path's instance identifier and the unpacked
\* BindingID is the path's binding identifier.
C11_BindingIDsUnpacked ==
    \A q \in Reqs :
        q.op \in ExtensionOps /\ UnpackSucceeded(q)
        => /\ q.unpacked.request.InstanceID = q.http.path.instance
           /\ q.unpacked.request.BindingID = q.http.path.binding

\* An optional field read from value v: set iff v is non-empty.
OptionalFrom(v) == IF v # "" THEN Ptr(v) ELSE Nil

\* C12 as stated: for LastOperation and BindingLastOperation requests each of
\* ServiceID, PlanID and OperationKey is set iff the query value service_id,
\* plan_id or operation is non-empty, and then equals it; an empty or absent
\* value leaves the field unset.
C12_OptionalFieldsFromQuery ==
    \A q \in Reqs :
        q.op \in {"last_operation", "binding_last_operation"} /\ UnpackSucceeded(q)
        => /\ q.unpacked.request.ServiceID = OptionalFrom(q.http.query[VarKeyServiceID])
           /\ q.unpacked.request.PlanID = OptionalFrom(q.http.query[VarKeyPlanID])
           /\ q.unpacked.request.OperationKey
                 = OptionalFrom(q.http.query[VarKeyOperation])

\* The operations whose unpacker calls retrieveOriginatingIdentity.
ResolvesIdentity(op) ==
    op \in {"provision", "deprovision", "bind", "unbind", "update",
            "binding_last_operation"}

WrongTokenCount(h) == Len(Split(h)) # 2

BadBase64(h) == Len(Split(h)) = 2 /\ Base64Decode(Split(h)[2]).err

UnrecognizedPlatform(h) ==
    Len(Split(h)) = 2 /\ ToLower(Split(h)[1]) \notin {"kubernetes", "cloudfoundry"}

\* A present identity header malformed in one of the three ways.
HeaderMalformed(h) ==
    h # "" /\ (WrongTokenCount(h) \/ BadBase64(h) \/ UnrecognizedPlatform(h))

\* C13 as stated: for every operation whose unpacker resolves the identity, a
\* present header with a wrong token count, a second token that is not base64
\* or an unrecognized platform makes unpacking fail: no request reaches the
\* business logic and the handler completes with an error response.
C13_MalformedHeaderFailsUnpacking ==
    \A q \in Reqs :
        ResolvesIdentity(q.op) /\ Unpacking(q) /\ HeaderMalformed(q.http.identity)
        => /\ q.unpacked.err # NoError
           /\ q.pc = "done"
           /\ q.logicArg = Nil
           /\ Len(q.writes) = 1
           /\ q.writes[1].by = "writeError"

IdentityMandatory(op) == op \in {"provision", "bind", "unbind", "update"}

IdentityLenient(op) ==
    op \in {"get_binding", "last_operation", "binding_last_operation"}

AbsentOrInvalid(h) == h = "" \/ HeaderMalformed(h)

\* The identity an unpacked request carries, Nil if it has none.
IdentityOf(request) ==
    IF "OriginatingIdentity" \in DOMAIN request
    THEN request.OriginatingIdentity ELSE Nil

\* C14 as stated: with an absent or invalid identity header, unpacking fails
\* for provision, bind, unbind and update; for get-binding, last-operation and
\* binding-last-operation it succeeds and the request goes to the business
\* logic with no identity.
C14_IdentityPolicy ==
    \A q \in Reqs :
        Unpacking(q) /\ AbsentOrInvalid(q.http.identity)
        => /\ IdentityMandatory(q.op) => q.unpacked.err # NoError
           /\ IdentityLenient(q.op) =>
                 /\ q.unpacked.err = NoError
                 /\ IdentityOf(q.unpacked.request) = Nil
                 /\ q.pc = "invoke"
                    \/ q.logicArg = Ptr(q.unpacked.request)

HeaderNames(headers) == {h[1] : h \in headers}

\* The bare 500 writeResponse sends when serialization fails.
BareFailure(sent) == sent.status = StatusInternalServerError /\ sent.body = Nil

\* C15 as stated: when CORS is enabled every response this layer writes (a
\* success response, an error written through writeError, the bare 500 of a
\* failed serialization) carries the three Access-Control headers with their
\* fixed values; when it is disabled no response carries any of them.
C15_CORSHeadersOnEveryResponse ==
    \A q \in Reqs : \A i \in DOMAIN q.writes :
        IF enableCORS
        THEN CORSHeaders \subseteq q.writes[i].sent.headers
        ELSE HeaderNames(q.writes[i].sent.headers) \cap HeaderNames(CORSHeaders) = {}

SchemaFields == {"username", "uid", "groups", "extra"}

\* The JSON document a base64 value holds.
PayloadOf(value) == ParseDocument(Base64Decode(value).val)

\* Whether value is the base64 of a JSON payload valid for the platform: an
\* object, whose schema fields have the schema's types for kubernetes.
ValidPayload(platform, value) ==
    /\ ~Base64Decode(value).err
    /\ PayloadOf(value).ok
    /\ PayloadOf(value).val.t = "object"
    /\ ToLower(platform) = "kubernetes" =>
          \A i \in DOMAIN PayloadOf(value).val.items :
              LET m == PayloadOf(value).val.items[i]
              IN  ToLower(m.key) \in SchemaFields => Fits(FieldOf(m.key), m.val)

\* Whether JSON object d holds every member of object p that the platform's
\* schema defines: the four schema fields, named without regard to case, for
\* kubernetes, and every member for cloudfoundry.
ReproducesFields(platform, p, d) ==
    /\ d.t = "object"
    /\ \A i \in DOMAIN p.items :
          ToLower(platform) = "cloudfoundry" \/ ToLower(p.items[i].key) \in SchemaFields
          => \E j \in DOMAIN d.items :
                /\ ToLower(d.items[j].key) = ToLower(p.items[i].key)
                /\ d.items[j].val = p.items[i].val

\* C16 as stated: for every recognized platform token (kubernetes or
\* cloudfoundry in any case) and every base64 JSON payload valid for it,
\* NewIdentity succeeds, Platform() returns the token as given, Value() returns
\* the decoded payload and re-encoding Value() reproduces the payload's fields
\* of the platform's schema.
C16_IdentityRoundTrip ==
    ToLower(caller.platform) \in {"kubernetes", "cloudfoundry"}
    /\ ValidPayload(caller.platform, caller.value)
    => /\ caller.res.err = NoError
       /\ caller.pc \in {"read", "encoded"} =>
             /\ caller.gotPlatform = caller.platform
             /\ caller.gotValue.type \in {"UserInfo", "map"}
       /\ caller.pc = "encoded" =>
             /\ ~caller.encoded.err
             /\ ParseDocument(caller.encoded.data).ok
             /\ ReproducesFields(caller.platform, PayloadOf(caller.value).val,
                                 ParseDocument(caller.encoded.data).val)

\* The steps of a handler run that meets no failure, in order.
Steps(op) ==
    IF op = "get_catalog" THEN <<"inc", "validate", "invoke", "write">>
    ELSE <<"inc", "validate", "unpack", "invoke", "write">>

IsPrefix(s, t) == Len(s) <= Len(t) /\ s = SubSeq(t, 1, Len(s))

Invoked(q) == Times(q, "invoke") = 1

\* C17: the steps of every handler run in the order count, validate, unpack,
\* invoke, write; the business logic is invoked only after validation has
\* succeeded and the unpacker has returned a request, with exactly that
\* request; the response is written only after the business logic has
\* returned; after a version or unpacking failure the handler writes the
\* error and no later step runs.
C17_StepsInOrder ==
    \A q \in Reqs :
        /\ \/ IsPrefix(q.trace, Steps(q.op))
           \/ VersionFailed(q) /\ q.trace = <<"inc", "validate", "write">>
           \/ UnpackFailed(q) /\ q.trace = <<"inc", "validate", "unpack", "write">>
        /\ Invoked(q) =>
              /\ q.verr = NoError
              /\ q.logicRes # NoResult
              /\ q.op # "get_catalog" =>
                    /\ UnpackSucceeded(q)
                    /\ q.unpacked.request # Nil
                    /\ q.logicArg = Ptr(q.unpacked.request)
        /\ VersionFailed(q) \/ UnpackFailed(q) =>
              /\ q.pc = "done"
              /\ ~Invoked(q)
              /\ q.logicArg = Nil
              /\ q.logicRes = NoResult
              /\ Len(q.writes) = 1
        /\ ~VersionFailed(q) /\ ~UnpackFailed(q) /\ q.writes # <<>> =>
              Invoked(q) /\ q.trace = Steps(q.op)

C17_Witness ==
    \E q \in Reqs :
        /\ q.op = "binding_last_operation"
        /\ q.pc = "done"
        /\ q.trace = Steps(q.op)
        /\ q.logicArg = Ptr(q.unpacked.request)
        /\ q.unpacked.request.OperationKey = Ptr("o1234")
        /\ q.logicRes.kind = "ok"
        /\ Sent(q).status = StatusOK

\* Whether two requests have the same inputs and got the same results from
\* the business logic.
SameInputs(q1, q2) ==
    /\ q1.op = q2.op
    /\ q1.http = q2.http
    /\ q1.verr = q2.verr
    /\ q1.logicRes = q2.logicRes

\* Requests with the same inputs and results are answered alike.
AnsweredAlike ==
    \A q1, q2 \in Reqs :
        SameInputs(q1, q2) /\ q1.writes # <<>> /\ q2.writes # <<>>
        => /\ Sent(q1).status = Sent(q2).status
           /\ Sent(q1).body = Sent(q2).body

C19_DeprovisionStatusByAsyncFlag ==
    \A q \in Reqs :
        Succeeded(q) /\ q.op = "deprovision"
        => /\ q.writes[1].by = "writeResponse"
           /\ q.writes[1].code = SuccessStatus("provision", q.logicRes)
           /\ Sent(q).status = (IF q.logicRes.async THEN StatusAccepted ELSE StatusOK)

C19_Witness ==
    \E q \in Reqs :
        /\ q.op = "deprovision"
        /\ Succeeded(q)
        /\ q.logicRes.async
        /\ q.unpacked.request.AcceptsIncomplete
        /\ Sent(q).status = StatusAccepted

====
